---- MODULE Spec2Model ----
(***************************************************************************)
(* Model of the two Ansible modules influxdb_user and influxdb_privs.      *)
(* A behaviour is a series of invocations of one of the two modules        *)
(* against an InfluxDB server: a first run on any input and any server     *)
(* state, then repeated runs on that input.  The server holds users (admin *)
(* flag, password) and per (user, database) grants.  Every client call may *)
(* return normally or raise one of the two exceptions of the client        *)
(* library.  exit_json and fail_json end the invocation (sys.exit).        *)
(***************************************************************************)
EXTENDS Naturals, Sequences, FiniteSets, TLC

VARIABLES
    users,       \* server: user name -> None or Some([admin, password])
    grants,      \* server: <<user name, database>> -> privilege string or NoGrant
    mod,         \* which module the behaviour invokes: "user" or "privs"
    params,      \* module.params of the running invocation
    check_mode,  \* module.check_mode
    pc,          \* position of the running invocation
    user,        \* local `user` of main / find_grant: None or Some(dict)
    grant,       \* local `grant` of influxdb_privs.main: None or Some(dict)
    calls,       \* client calls made by the running invocation, in order
    result,      \* what the invocation reported (exit_json / fail_json / traceback)
    raised,      \* the exception a client call of this invocation raised, if any
    pre,         \* server state when the running invocation started
    prev         \* the previous invocation, when this one repeats its input

vars == <<users, grants, mod, params, check_mode, pc, user, grant, calls,
          result, raised, pre, prev>>

\* ---------------------------------------------------------------- bounds

\* The most (user, database) pairs that hold a grant when a behaviour starts.
MaxGrants == 2

Names == {"todd", "Todd"}
NameOrder == <<"todd", "Todd">>
Passwords == {"pw1", "pw2"}
Dbs == {"NOAA_water_database", "other_db"}
\* The order in which the server lists a user's grants.
DbOrder == <<"other_db", "NOAA_water_database">>
States == {"present", "absent"}
Privileges == {"read", "write", "all"}

\* Python's None and a present value.
None == {}
Some(x) == {x}
The(s) == CHOOSE x \in s : TRUE

\* --------------------------------------------------- the client library

\* No exception: the client call returned.
NoExc == [type |-> "none", str |-> "", content |-> ""]
\* requests.exceptions.ConnectionError: str(e) is the transport error text.
ConnectionError ==
    [type |-> "ConnectionError", str |-> "connection refused", content |-> ""]
\* influxdb.exceptions.InfluxDBClientError: e.content is the server's payload.
InfluxDBClientError ==
    [type |-> "InfluxDBClientError", str |-> "403: forbidden",
     content |-> "forbidden"]
ClientOutcomes == {NoExc, ConnectionError, InfluxDBClientError}

\* Privilege strings the server reports in SHOW GRANTS.
NoGrant == "-"
GrantStrings == {"READ", "WRITE", "ALL PRIVILEGES", "NO PRIVILEGES", "SUPER"}

\* The privilege string the server stores for a requested privilege.
ServerPrivilege(privilege) ==
    CASE privilege = "read" -> "READ"
      [] privilege = "write" -> "WRITE"
      [] privilege = "all" -> "ALL PRIVILEGES"

RECURSIVE UserRows(_, _)
UserRows(u, i) ==
    IF i > Len(NameOrder) THEN <<>>
    ELSE LET n == NameOrder[i]
         IN  (IF u[n] = None THEN <<>>
              ELSE <<[user |-> n, admin |-> The(u[n]).admin]>>)
             \o UserRows(u, i + 1)

\* client.get_list_users(): one dict per user, with its name and admin flag.
get_list_users(u) == UserRows(u, 1)

RECURSIVE GrantRows(_, _, _)
GrantRows(g, username, i) ==
    IF i > Len(DbOrder) THEN <<>>
    ELSE LET d == DbOrder[i]
         IN  (IF g[<<username, d>>] = NoGrant THEN <<>>
              ELSE <<[database |-> d, privilege |-> g[<<username, d>>]]>>)
             \o GrantRows(g, username, i + 1)

\* client.get_list_grants(username): one dict per database the user has a row for.
get_list_grants(g, username) == GrantRows(g, username, 1)

\* client.create_user(name, password, admin): adds the user with that flag.
client_create_user(u, name, password, admin) ==
    [u EXCEPT ![name] = Some([admin |-> admin, password |-> password])]

\* client.drop_user(name)
client_drop_user(u, name) == [u EXCEPT ![name] = None]

\* client.grant_admin_privileges(name) / client.revoke_admin_privileges(name)
client_set_admin(u, name, flag) ==
    IF u[name] = None THEN u
    ELSE [u EXCEPT ![name] = Some([The(u[name]) EXCEPT !.admin = flag])]

\* client.grant_privilege(privilege, database, username): sets the level.
client_grant_privilege(g, privilege, database, username) ==
    [g EXCEPT ![<<username, database>>] = ServerPrivilege(privilege)]

\* client.revoke_privilege(privilege, database, username): removes the held level.
client_revoke_privilege(g, privilege, database, username) ==
    IF g[<<username, database>>] = ServerPrivilege(privilege)
    THEN [g EXCEPT ![<<username, database>>] = NoGrant]
    ELSE g

\* ------------------------------------------------- AnsibleModule results

Running == [kind |-> "running", changed |-> FALSE, msg |-> ""]
\* module.exit_json(changed=c)
exit_json(c) == [kind |-> "exit", changed |-> c, msg |-> ""]
\* module.fail_json(msg=m)
fail_json(m) == [kind |-> "fail", changed |-> FALSE, msg |-> m]
\* An exception no handler catches: the module dies with a traceback.
Uncaught(e) == [kind |-> "crash", changed |-> FALSE, msg |-> e.type]

\* ------------------------------------------------------ influxdb_user.py

RECURSIVE first_user(_, _, _)
\* The loop of find_user: the first row whose 'user' equals name, else None.
first_user(rows, name, i) ==
    IF i > Len(rows) THEN None
    ELSE IF rows[i].user = name THEN Some(rows[i])
    ELSE first_user(rows, name, i + 1)

\* Names compared without regard to case (used by a mutant of find_user).
Lower(s) == IF s = "Todd" THEN "todd" ELSE s

RECURSIVE first_user_nocase(_, _, _)
first_user_nocase(rows, name, i) ==
    IF i > Len(rows) THEN None
    ELSE IF Lower(rows[i].user) = Lower(name) THEN Some(rows[i])
    ELSE first_user_nocase(rows, name, i + 1)

find_user_nocase(exc, rows, name) ==
    IF exc = NoExc
    THEN [result |-> Running, user |-> first_user_nocase(rows, name, 1)]
    ELSE IF exc.type = "ConnectionError"
    THEN [result |-> fail_json(exc.str), user |-> None]
    ELSE [result |-> Uncaught(exc), user |-> None]

\* find_user(module, client, name): exc is what client.get_list_users() raised,
\* rows what it returned.  Only ConnectionError is caught.
find_user(exc, rows, name) ==
    IF exc = NoExc
    THEN [result |-> Running, user |-> first_user(rows, name, 1)]
    ELSE IF exc.type = "ConnectionError"
    THEN [result |-> fail_json(exc.str), user |-> None]
    ELSE [result |-> Uncaught(exc), user |-> None]

\* A mutating wrapper's outcome: the client call it made (None in check mode),
\* whether the call took effect on the server, and what the module reported.
Outcome(call, exc, handled, msg) ==
    IF exc = NoExc
    THEN [call |-> Some(call), applied |-> TRUE, result |-> exit_json(TRUE)]
    ELSE IF exc.type = handled
    THEN [call |-> Some(call), applied |-> FALSE, result |-> fail_json(msg)]
    ELSE [call |-> Some(call), applied |-> FALSE, result |-> Uncaught(exc)]

Skipped == [call |-> None, applied |-> FALSE, result |-> exit_json(TRUE)]

\* create_user that reports "unchanged" in check mode (a mutant of create_user).
create_user_dry_unchanged(check, exc, name, password, admin) ==
    IF ~check
    THEN Outcome([op |-> "create_user", name |-> name, password |-> password,
                  admin |-> admin], exc, "ConnectionError", exc.str)
    ELSE [call |-> None, applied |-> FALSE, result |-> exit_json(FALSE)]

\* create_user(module, client, name, password, admin=False)
create_user(check, exc, name, password, admin) ==
    IF ~check
    THEN Outcome([op |-> "create_user", name |-> name, password |-> password,
                  admin |-> admin], exc, "ConnectionError", exc.str)
    ELSE Skipped

\* The admin argument main() passes to create_user: none, so the default.
create_user_admin_arg == FALSE

\* drop_user that reports str(e) instead of e.content (a mutant of drop_user).
drop_user_str(check, exc, name) ==
    IF ~check
    THEN Outcome([op |-> "drop_user", name |-> name], exc,
                 "InfluxDBClientError", exc.str)
    ELSE Skipped

\* drop_user(module, client, name)
drop_user(check, exc, name) ==
    IF ~check
    THEN Outcome([op |-> "drop_user", name |-> name], exc,
                 "InfluxDBClientError", exc.content)
    ELSE Skipped

\* grant_admin_privileges(module, client, name)
grant_admin_privileges(check, exc, name) ==
    IF ~check
    THEN Outcome([op |-> "grant_admin_privileges", name |-> name], exc,
                 "InfluxDBClientError", exc.content)
    ELSE Skipped

\* revoke_admin_privileges(module, client, name)
revoke_admin_privileges(check, exc, name) ==
    IF ~check
    THEN Outcome([op |-> "revoke_admin_privileges", name |-> name], exc,
                 "InfluxDBClientError", exc.content)
    ELSE Skipped

\* main() that re-creates an existing user whose admin flag differs
\* (a mutant of user_main).
user_main_recreate(state, u, admin) ==
    IF state = "present"
    THEN IF u # None
         THEN IF The(u).admin = admin THEN "exit_unchanged" ELSE "create_user"
         ELSE "create_user"
    ELSE IF u # None THEN "drop_user" ELSE "exit_unchanged"

\* The if/else of influxdb_user.main(): which call main makes.
user_main(state, u, admin) ==
    IF state = "present"
    THEN IF u # None
         THEN IF The(u).admin = admin THEN "exit_unchanged"
              ELSE IF admin THEN "grant_admin_privileges"
              ELSE "revoke_admin_privileges"
         ELSE "create_user"
    ELSE IF u # None THEN "drop_user" ELSE "exit_unchanged"

\* ----------------------------------------------------- influxdb_privs.py

RECURSIVE privs_first_user(_, _, _)
\* The loop of influxdb_privs.find_user.
privs_first_user(rows, username, i) ==
    IF i > Len(rows) THEN None
    ELSE IF rows[i].user = username THEN Some(rows[i])
    ELSE privs_first_user(rows, username, i + 1)

\* influxdb_privs.find_user(module, client, username)
privs_find_user(exc, rows, username) ==
    IF exc = NoExc
    THEN [result |-> Running, user |-> privs_first_user(rows, username, 1)]
    ELSE IF exc.type = "ConnectionError"
    THEN [result |-> fail_json(exc.str), user |-> None]
    ELSE [result |-> Uncaught(exc), user |-> None]

\* The keys and values of find_grant's privilege_map; PyNone is the None value.
PyNone == "None"
privilege_map_keys == {"READ", "WRITE", "ALL PRIVILEGES", "NO PRIVILEGES"}
privilege_map(s) ==
    CASE s = "READ" -> "read"
      [] s = "WRITE" -> "write"
      [] s = "ALL PRIVILEGES" -> "all"
      [] s = "NO PRIVILEGES" -> PyNone

\* The message of find_grant's fail_json: 'No user "{0}".'.format(username)
no_user_msg(username) == "No user \"" \o username \o "\"."

\* find_grant that goes on to the grant list when the user is missing
\* (a mutant of find_grant_user).
find_grant_user_lenient(exc, rows, username) ==
    LET f == privs_find_user(exc, rows, username)
    IN  IF f.result # Running THEN f
        ELSE IF f.user = None THEN [result |-> Running, user |-> None]
        ELSE f

\* find_grant, first half: resolve the user, fail if there is none.
find_grant_user(exc, rows, username) ==
    LET f == privs_find_user(exc, rows, username)
    IN  IF f.result # Running THEN f
        ELSE IF f.user = None
        THEN [result |-> fail_json(no_user_msg(username)), user |-> None]
        ELSE f

RECURSIVE first_grant_any_db(_, _, _, _)
first_grant_any_db(rows, privilege, database, i) ==
    IF i > Len(rows) THEN None
    ELSE IF rows[i].privilege \notin privilege_map_keys
    THEN first_grant_any_db(rows, privilege, database, i + 1)
    ELSE IF privilege_map(rows[i].privilege) = privilege THEN Some(rows[i])
    ELSE first_grant_any_db(rows, privilege, database, i + 1)

\* find_grant that does not compare the database (a mutant of find_grant_scan).
find_grant_scan_any_db(exc, rows, privilege, database) ==
    IF exc = NoExc
    THEN [result |-> Running,
          grant |-> first_grant_any_db(rows, privilege, database, 1)]
    ELSE IF exc.type = "ConnectionError"
    THEN [result |-> fail_json(exc.str), grant |-> None]
    ELSE [result |-> Uncaught(exc), grant |-> None]

RECURSIVE first_grant(_, _, _, _)
\* The loop of find_grant: skip rows of another database or with a privilege
\* string that is no key of privilege_map; return the first row that maps to
\* the requested privilege.
first_grant(rows, privilege, database, i) ==
    IF i > Len(rows) THEN None
    ELSE IF rows[i].database # database
            \/ rows[i].privilege \notin privilege_map_keys
    THEN first_grant(rows, privilege, database, i + 1)
    ELSE IF privilege_map(rows[i].privilege) = privilege THEN Some(rows[i])
    ELSE first_grant(rows, privilege, database, i + 1)

\* find_grant, second half: exc is what client.get_list_grants(username)
\* raised, rows what it returned.
find_grant_scan(exc, rows, privilege, database) ==
    IF exc = NoExc
    THEN [result |-> Running, grant |-> first_grant(rows, privilege, database, 1)]
    ELSE IF exc.type = "ConnectionError"
    THEN [result |-> fail_json(exc.str), grant |-> None]
    ELSE [result |-> Uncaught(exc), grant |-> None]

\* grant_privilege(module, client, privilege, database, username)
grant_privilege(check, exc, privilege, database, username) ==
    IF ~check
    THEN Outcome([op |-> "grant_privilege", privilege |-> privilege,
                  database |-> database, username |-> username],
                 exc, "ConnectionError", exc.str)
    ELSE Skipped

\* revoke_privilege(module, client, privilege, database, username)
revoke_privilege(check, exc, privilege, database, username) ==
    IF ~check
    THEN Outcome([op |-> "revoke_privilege", privilege |-> privilege,
                  database |-> database, username |-> username],
                 exc, "InfluxDBClientError", exc.content)
    ELSE Skipped

\* The if/else of influxdb_privs.main(): which call main makes.
privs_main(state, g) ==
    IF state = "present"
    THEN IF g # None THEN "exit_unchanged" ELSE "grant_privilege"
    ELSE IF g # None THEN "revoke_privilege" ELSE "exit_unchanged"

\* ------------------------------------------------------------ the inputs

UserParams ==
    [name : Names, password : Passwords, admin : BOOLEAN, state : States]

\* The database asked for is the one the server lists last, so that rows of
\* another database come before the row the scan is looking for.
PrivsParams ==
    [username : Names, database : {"NOAA_water_database"},
     privilege : Privileges, state : States]

ParamsOf(m) == IF m = "user" THEN UserParams ELSE PrivsParams

UserRecords == [admin : BOOLEAN, password : Passwords]
NoGrants == [k \in Names \X Dbs |-> NoGrant]

\* The server states a behaviour starts from.  The user module never reads
\* grants and the privilege module never reads admin flags or passwords, so
\* each starts with the other module's part of the server fixed.
UserTables(m) ==
    IF m = "user"
    THEN [Names -> {None} \cup {Some(r) : r \in UserRecords}]
    ELSE [Names -> {None, Some([admin |-> FALSE, password |-> "pw1"])}]

GrantTables(m) ==
    IF m = "user"
    THEN {NoGrants}
    ELSE {g \in [Names \X Dbs -> GrantStrings \cup {NoGrant}] :
            Cardinality({k \in Names \X Dbs : g[k] # NoGrant}) <= MaxGrants}

\* The calls that change the server.
MutatingOps ==
    {"create_user", "drop_user", "grant_admin_privileges",
     "revoke_admin_privileges", "grant_privilege", "revoke_privilege"}

Init ==
    /\ mod \in {"user", "privs"}
    /\ users \in UserTables(mod)
    /\ grants \in GrantTables(mod)
    /\ params \in ParamsOf(mod)
    /\ check_mode \in BOOLEAN
    /\ pc = "find_user"
    /\ user = None
    /\ grant = None
    /\ calls = <<>>
    /\ result = Running
    /\ raised = None
    /\ pre = [users |-> users, grants |-> grants]
    /\ prev = None

\* What a raising client call leaves in `raised`.
Raise(op, exc) == IF exc = NoExc THEN None ELSE Some([op |-> op, exc |-> exc])

\* ---------------------------------------------- influxdb_user.py actions

\* user = find_user(module, client, user_name)
UserFindUser ==
    /\ mod = "user" /\ pc = "find_user"
    /\ \E exc \in ClientOutcomes :
         LET f == find_user(exc, get_list_users(users), params.name)
         IN  /\ calls' = Append(calls, [op |-> "get_list_users"])
             /\ raised' = Raise("get_list_users", exc)
             /\ user' = f.user
             /\ result' = f.result
             /\ pc' = IF f.result = Running THEN "main" ELSE "done"
    /\ UNCHANGED <<users, grants, mod, params, check_mode, grant, pre, prev>>

\* A mutating wrapper has run with outcome o after the client raised exc.
Finish(o, exc) ==
    /\ calls' = IF o.call = None THEN calls ELSE Append(calls, The(o.call))
    /\ raised' = IF o.call = None THEN None ELSE Raise(The(o.call).op, exc)
    /\ result' = o.result
    /\ pc' = "done"
    /\ UNCHANGED <<mod, params, check_mode, user, grant, pre, prev>>

\* module.exit_json(changed=False) in main()
UserExitUnchanged ==
    /\ mod = "user" /\ pc = "main"
    /\ user_main(params.state, user, params.admin) = "exit_unchanged"
    /\ result' = exit_json(FALSE)
    /\ pc' = "done"
    /\ UNCHANGED <<users, grants, mod, params, check_mode, user, grant, calls,
                   raised, pre, prev>>

\* create_user(module, client, user_name, password)
UserCreateUser ==
    /\ mod = "user" /\ pc = "main"
    /\ user_main(params.state, user, params.admin) = "create_user"
    /\ \E exc \in ClientOutcomes :
         LET o == create_user(check_mode, exc, params.name, params.password,
                              create_user_admin_arg)
         IN  /\ users' = IF o.applied
                         THEN client_create_user(users, The(o.call).name,
                                  The(o.call).password, The(o.call).admin)
                         ELSE users
             /\ Finish(o, exc)
    /\ UNCHANGED grants

\* drop_user(module, client, user_name)
UserDropUser ==
    /\ mod = "user" /\ pc = "main"
    /\ user_main(params.state, user, params.admin) = "drop_user"
    /\ \E exc \in ClientOutcomes :
         LET o == drop_user(check_mode, exc, params.name)
         IN  /\ users' = IF o.applied
                         THEN client_drop_user(users, The(o.call).name)
                         ELSE users
             /\ Finish(o, exc)
    /\ UNCHANGED grants

\* grant_admin_privileges(module, client, user_name)
UserGrantAdmin ==
    /\ mod = "user" /\ pc = "main"
    /\ user_main(params.state, user, params.admin) = "grant_admin_privileges"
    /\ \E exc \in ClientOutcomes :
         LET o == grant_admin_privileges(check_mode, exc, params.name)
         IN  /\ users' = IF o.applied
                         THEN client_set_admin(users, The(o.call).name, TRUE)
                         ELSE users
             /\ Finish(o, exc)
    /\ UNCHANGED grants

\* revoke_admin_privileges(module, client, user_name)
UserRevokeAdmin ==
    /\ mod = "user" /\ pc = "main"
    /\ user_main(params.state, user, params.admin) = "revoke_admin_privileges"
    /\ \E exc \in ClientOutcomes :
         LET o == revoke_admin_privileges(check_mode, exc, params.name)
         IN  /\ users' = IF o.applied
                         THEN client_set_admin(users, The(o.call).name, FALSE)
                         ELSE users
             /\ Finish(o, exc)
    /\ UNCHANGED grants

\* --------------------------------------------- influxdb_privs.py actions

\* find_grant: user = find_user(...); if not user: module.fail_json(...)
PrivsFindGrantUser ==
    /\ mod = "privs" /\ pc = "find_user"
    /\ \E exc \in ClientOutcomes :
         LET f == find_grant_user(exc, get_list_users(users), params.username)
         IN  /\ calls' = Append(calls, [op |-> "get_list_users"])
             /\ raised' = Raise("get_list_users", exc)
             /\ user' = f.user
             /\ result' = f.result
             /\ pc' = IF f.result = Running THEN "list_grants" ELSE "done"
    /\ UNCHANGED <<users, grants, mod, params, check_mode, grant, pre, prev>>

\* find_grant: grants = client.get_list_grants(username) and the scan
PrivsFindGrantList ==
    /\ mod = "privs" /\ pc = "list_grants"
    /\ \E exc \in ClientOutcomes :
         LET f == find_grant_scan(exc, get_list_grants(grants, params.username),
                                  params.privilege, params.database)
         IN  /\ calls' = Append(calls, [op |-> "get_list_grants",
                                        username |-> params.username])
             /\ raised' = Raise("get_list_grants", exc)
             /\ grant' = f.grant
             /\ result' = f.result
             /\ pc' = IF f.result = Running THEN "main" ELSE "done"
    /\ UNCHANGED <<users, grants, mod, params, check_mode, user, pre, prev>>

\* module.exit_json(changed=False) in main()
PrivsExitUnchanged ==
    /\ mod = "privs" /\ pc = "main"
    /\ privs_main(params.state, grant) = "exit_unchanged"
    /\ result' = exit_json(FALSE)
    /\ pc' = "done"
    /\ UNCHANGED <<users, grants, mod, params, check_mode, user, grant, calls,
                   raised, pre, prev>>

\* grant_privilege(module, client, privilege, database, username)
PrivsGrantPrivilege ==
    /\ mod = "privs" /\ pc = "main"
    /\ privs_main(params.state, grant) = "grant_privilege"
    /\ \E exc \in ClientOutcomes :
         LET o == grant_privilege(check_mode, exc, params.privilege,
                                  params.database, params.username)
         IN  /\ grants' = IF o.applied
                          THEN client_grant_privilege(grants,
                                   The(o.call).privilege, The(o.call).database,
                                   The(o.call).username)
                          ELSE grants
             /\ Finish(o, exc)
    /\ UNCHANGED users

\* revoke_privilege(module, client, privilege, database, username)
PrivsRevokePrivilege ==
    /\ mod = "privs" /\ pc = "main"
    /\ privs_main(params.state, grant) = "revoke_privilege"
    /\ \E exc \in ClientOutcomes :
         LET o == revoke_privilege(check_mode, exc, params.privilege,
                                   params.database, params.username)
         IN  /\ grants' = IF o.applied
                          THEN client_revoke_privilege(grants,
                                   The(o.call).privilege, The(o.call).database,
                                   The(o.call).username)
                          ELSE grants
             /\ Finish(o, exc)
    /\ UNCHANGED users

\* ------------------------------------------------------- the invocations

\* The locals of a starting invocation.
Fresh ==
    /\ pc' = "find_user"
    /\ user' = None
    /\ grant' = None
    /\ calls' = <<>>
    /\ result' = Running
    /\ raised' = None
    /\ pre' = [users |-> users, grants |-> grants]
    /\ UNCHANGED <<users, grants, mod>>

\* The parameters of a repeated run: the same, or (user module) the same with
\* another password.
Repeats(m, p) ==
    IF m = "user"
    THEN {[p EXCEPT !.password = w] : w \in Passwords}
    ELSE {p}

\* The module is run again on the input of the run that just ended, with or
\* without check mode; the run that ended is remembered in prev.
Reinvoke ==
    /\ pc = "done"
    /\ params' \in Repeats(mod, params)
    /\ check_mode' \in BOOLEAN
    /\ prev' = Some([params |-> params, check_mode |-> check_mode,
                     calls |-> calls, result |-> result, raised |-> raised,
                     pre |-> pre])
    /\ Fresh

Next ==
    \/ UserFindUser
    \/ UserExitUnchanged
    \/ UserCreateUser
    \/ UserDropUser
    \/ UserGrantAdmin
    \/ UserRevokeAdmin
    \/ PrivsFindGrantUser
    \/ PrivsFindGrantList
    \/ PrivsExitUnchanged
    \/ PrivsGrantPrivilege
    \/ PrivsRevokePrivilege
    \/ Reinvoke

Spec == Init /\ [][Next]_vars

\* ------------------------------------------------------------ properties

\* The mutating calls among cs, in order.
Mutating(cs) == SelectSeq(cs, LAMBDA c : c.op \in MutatingOps)

\* The run has ended, was no dry run, and no client call raised.
CleanRun == pc = "done" /\ ~check_mode /\ raised = None

\* C1: idempotence.  When the same input is applied twice in succession, no
\* dry run, no client error, and the first run ended in exit_json, then the
\* first run reported changed=true if it made a mutating call and the second
\* run reports changed=false.
C1_Idempotent ==
    \A p \in prev :
        (CleanRun /\ p.params = params /\ ~p.check_mode /\ p.raised = None
         /\ p.result.kind = "exit")
        => /\ (Mutating(p.calls) # <<>> => p.result = exit_json(TRUE))
           /\ result = exit_json(FALSE)

\* C2: the decision table of the user module, on the user table the server
\* held when the run started; names are compared exactly.
C2_UserDecisionTable ==
    (mod = "user" /\ CleanRun) =>
        LET had == pre.users[params.name]
            m == Mutating(calls)
        IN  /\ (params.state = "present" /\ had # None
                /\ The(had).admin = params.admin)
               => (m = <<>> /\ result = exit_json(FALSE))
            /\ (params.state = "present" /\ had # None
                /\ The(had).admin # params.admin)
               => /\ m = << [op |-> IF params.admin
                                    THEN "grant_admin_privileges"
                                    ELSE "revoke_admin_privileges",
                             name |-> params.name] >>
                  /\ result = exit_json(TRUE)
            /\ (params.state = "present" /\ had = None)
               => /\ Len(m) = 1
                  /\ m[1].op = "create_user"
                  /\ m[1].name = params.name
                  /\ result = exit_json(TRUE)
            /\ (params.state = "absent" /\ had # None)
               => /\ m = << [op |-> "drop_user", name |-> params.name] >>
                  /\ result = exit_json(TRUE)
            /\ (params.state = "absent" /\ had = None)
               => (m = <<>> /\ result = exit_json(FALSE))

\* C2 witness: "todd" is created although "Todd" exists.
C2_Witness ==
    /\ mod = "user" /\ CleanRun
    /\ params.name = "todd" /\ params.state = "present"
    /\ pre.users["todd"] = None /\ pre.users["Todd"] # None
    /\ Len(Mutating(calls)) = 1
    /\ result = exit_json(TRUE)

\* The grant the server held for the requested (user, database) maps to the
\* requested privilege.
GrantExisted ==
    LET held == pre.grants[<<params.username, params.database>>]
    IN  \/ (held = "READ" /\ params.privilege = "read")
        \/ (held = "WRITE" /\ params.privilege = "write")
        \/ (held = "ALL PRIVILEGES" /\ params.privilege = "all")

\* The grant / revoke call with the requested arguments.
PrivCall(op) ==
    [op |-> op, privilege |-> params.privilege, database |-> params.database,
     username |-> params.username]

\* C3: the decision table of the privilege module, the user existing.
C3_PrivsDecisionTable ==
    (mod = "privs" /\ CleanRun /\ pre.users[params.username] # None) =>
        LET m == Mutating(calls)
        IN  /\ (params.state = "present" /\ GrantExisted)
               => (m = <<>> /\ result = exit_json(FALSE))
            /\ (params.state = "present" /\ ~GrantExisted)
               => (m = <<PrivCall("grant_privilege")>>
                   /\ result = exit_json(TRUE))
            /\ (params.state = "absent" /\ GrantExisted)
               => (m = <<PrivCall("revoke_privilege")>>
                   /\ result = exit_json(TRUE))
            /\ (params.state = "absent" /\ ~GrantExisted)
               => (m = <<>> /\ result = exit_json(FALSE))

\* C3 witness: the privilege is granted on a database that reports
\* NO PRIVILEGES while another database already holds the requested level.
C3_Witness ==
    /\ mod = "privs" /\ CleanRun
    /\ params.state = "present" /\ params.privilege = "read"
    /\ pre.users[params.username] # None
    /\ pre.grants[<<params.username, "other_db">>] = "READ"
    /\ pre.grants[<<params.username, params.database>>] = "NO PRIVILEGES"
    /\ Mutating(calls) = <<PrivCall("grant_privilege")>>
    /\ result = exit_json(TRUE)

\* C4: a dry run makes no mutating call and leaves the server as it was, and
\* a dry run and a real run on the same input and server state, neither with
\* a client error, report the same outcome and changed flag.
C4_DryRun ==
    /\ check_mode
       => (Mutating(calls) = <<>> /\ users = pre.users /\ grants = pre.grants)
    /\ \A p \in prev :
           (pc = "done" /\ p.params = params /\ p.check_mode # check_mode
            /\ p.pre = pre /\ p.raised = None /\ raised = None)
           => (p.result.kind = result.kind
               /\ p.result.changed = result.changed)

\* C4 witness: a real run that changed the server follows a dry run on the
\* same input and server state.
C4_Witness ==
    /\ pc = "done" /\ ~check_mode /\ raised = None
    /\ Mutating(calls) # <<>>
    /\ result = exit_json(TRUE)
    /\ \E p \in prev :
           /\ p.check_mode /\ p.params = params /\ p.pre = pre
           /\ p.raised = None /\ p.result = exit_json(TRUE)

\* C5: in the privilege module, when the user list has no user of the
\* requested name, the grants are never listed, granted or revoked, and the
\* run ends in fail_json with the message naming the user.
C5_NoUserIsFatal ==
    (mod = "privs" /\ pre.users[params.username] = None) =>
        /\ \A i \in 1..Len(calls) :
               calls[i].op \notin
                   {"get_list_grants", "grant_privilege", "revoke_privilege"}
        /\ (pc = "done" /\ raised = None)
           => /\ result.kind = "fail"
              /\ result.msg = "No user \"" \o params.username \o "\"."
        /\ (calls # <<>> /\ raised = None) => pc = "done"

\* C5 witness: a dry run for "todd" fails while only "Todd" exists.
C5_Witness ==
    /\ mod = "privs" /\ pc = "done" /\ check_mode /\ raised = None
    /\ params.username = "todd" /\ params.state = "absent"
    /\ pre.users["todd"] = None /\ pre.users["Todd"] # None
    /\ result.kind = "fail"
    /\ Len(calls) = 1

\* C6: every run makes at most one mutating call, after all its read calls,
\* and reports exactly one of exit_json / fail_json.
C6_OneActionOneOutcome ==
    pc = "done" =>
        /\ Len(Mutating(calls)) <= 1
        /\ \A i \in 1..Len(calls) :
               calls[i].op \in MutatingOps => i = Len(calls)
        /\ result.kind \in {"exit", "fail"}

\* C7: a mutating call that raises either client exception ends the run in
\* fail_json with a message, never in a traceback or with changed=true.
C7_MutatingErrorIsReported ==
    \A r \in raised :
        (pc = "done" /\ r.op \in MutatingOps)
        => (result.kind = "fail" /\ result.msg # "")

\* C8: a ConnectionError while listing users or grants, creating a user or
\* granting a privilege is reported with str(e); an InfluxDBClientError while
\* dropping a user, toggling admin or revoking a privilege is reported with
\* e.content.  The raising call is the run's last call.
C8_ErrorKindMapping ==
    \A r \in raised :
        /\ pc = "done"
        /\ calls[Len(calls)].op = r.op
        /\ (r.exc.type = "ConnectionError"
            /\ r.op \in {"get_list_users", "get_list_grants", "create_user",
                         "grant_privilege"})
           => result = [kind |-> "fail", changed |-> FALSE, msg |-> r.exc.str]
        /\ (r.exc.type = "InfluxDBClientError"
            /\ r.op \in {"drop_user", "grant_admin_privileges",
                         "revoke_admin_privileges", "revoke_privilege"})
           => result = [kind |-> "fail", changed |-> FALSE,
                        msg |-> r.exc.content]

\* C8 witness: drop_user was rejected and the payload is the message.
C8_Witness ==
    /\ pc = "done"
    /\ \E r \in raised :
           r.op = "drop_user" /\ r.exc.type = "InfluxDBClientError"
    /\ result.msg = "forbidden"
    /\ users = pre.users

\* C9: after a real run of the user module that ends in exit_json, the server
\* holds the requested user with the requested admin flag (present) or no
\* user of that name (absent).
C9_UserConverges ==
    (mod = "user" /\ pc = "done" /\ ~check_mode /\ result.kind = "exit") =>
        IF params.state = "present"
        THEN /\ users[params.name] # None
             /\ The(users[params.name]).admin = params.admin
        ELSE users[params.name] = None

\* C10: in the user module no run changes the password of a user that
\* exists, a password is passed only to create_user and only when the user
\* is missing, and two runs on the same server state that differ only in the
\* password make the same calls and report the same result when the user
\* exists.
C10_PasswordIndependence ==
    mod = "user" =>
        /\ \A n \in Names :
               (pre.users[n] # None /\ users[n] # None)
               => The(users[n]).password = The(pre.users[n]).password
        /\ \A i \in 1..Len(calls) :
               "password" \in DOMAIN calls[i]
               => (calls[i].op = "create_user"
                   /\ pre.users[params.name] = None)
        /\ \A p \in prev :
               (pc = "done" /\ p.pre = pre /\ p.check_mode = check_mode
                /\ [p.params EXCEPT !.password = params.password] = params
                /\ pre.users[params.name] # None /\ p.raised = raised)
               => (p.calls = calls /\ p.result = result)

\* C10 witness: two real runs with different passwords both attempt
\* grant_admin_privileges on an existing user.
C10_Witness ==
    /\ mod = "user" /\ pc = "done" /\ ~check_mode
    /\ pre.users[params.name] # None
    /\ Len(calls) = 2 /\ calls[2].op = "grant_admin_privileges"
    /\ \E p \in prev :
           /\ p.params.password # params.password
           /\ p.pre = pre /\ ~p.check_mode /\ p.raised = raised
           /\ p.calls = calls

====
